---- MODULE Spec2Model ----
(***************************************************************************)
(* Model of the DICOM series organizer of the viewer:                      *)
(*   src/src/hooks/useDicomParser.ts  (useDicomParser: parseZipFile,       *)
(*        reset, parseDicomFile, sortImagesByPosition, classifyPlanes)     *)
(*   src/unnamed/part_000             (the byte cache dicomDataCache)      *)
(*                                                                         *)
(* Numbers.  The code computes with IEEE doubles.  The model draws every   *)
(* coordinate from a small range of integers, on which sums, differences   *)
(* and products are exact in doubles; the one place that divides and takes *)
(* a square root (the normalised slice normal) is kept as the pair         *)
(* (integer vector v, squared length m2), standing for v / sqrt(m2), and   *)
(* the comparisons the code makes on the quotients are made on the         *)
(* squares.  NaN and the infinities are outside the model.                 *)
(*                                                                         *)
(* Strings.  A file name is a sequence of one-character strings, "/"       *)
(* included, so that split("/") is computed on the characters.            *)
(***************************************************************************)
EXTENDS Integers, Sequences, FiniteSets, TLC

VARIABLES
    series,           \* useState: DicomSeries[]
    isLoading,        \* useState: boolean
    error,            \* useState: string | null
    hasLoaded,        \* useState: boolean
    loadingProgress,  \* useState: number
    loadingMessage,   \* useState: string
    zipRef,           \* useRef: [current: Null or "JSZip", files: its files in key order]
    dicomDataCache,   \* the module-level Map of part_000, in insertion order
    pc,               \* where the invocation of parseZipFile stands
    file,             \* the File passed to the invocation
    fileEntries,      \* local of parseZipFile
    i,                \* loop index of parseZipFile
    processedCount,   \* local of parseZipFile
    dicomFiles,       \* local of parseZipFile
    seriesMap,        \* local of parseZipFile: Map in insertion order
    runs,             \* number of invocations of parseZipFile so far
    reported,         \* the values the invocation has passed to setLoadingProgress
    prev,             \* the invocation before this one: its file and its list `out`
    other,            \* the locals of a second invocation that is awaiting
    orientation,      \* imageOrientationPatient of the image given to the classification
    landed,           \* the buckets of classifyPlanes that image was pushed to
    lookup,           \* the last call of customDicomLoader: its imageId and outcome
    arrays            \* the arrays of one call of classifyPlanes, and where it stands

hookVars == <<series, isLoading, error, hasLoaded, loadingProgress, loadingMessage>>
runVars == <<pc, file, fileEntries, i, processedCount, dicomFiles, seriesMap, runs,
             reported>>
planeVars == <<orientation, landed>>
histVars == <<prev, other>>
unitVars == <<lookup, arrays>>
vars == <<hookVars, zipRef, dicomDataCache, runVars, planeVars, histVars, unitVars>>

-----------------------------------------------------------------------------
(* Bounds of the model *)

\* longest archive (number of entries) an upload carries
MaxEntries == 2
\* longest archive of image slices of the series runs
MaxSlices == 3
\* number of invocations of parseZipFile on one hook instance
MaxRuns == 2
\* orientation components range over -MaxCos..MaxCos
MaxCos == 2
\* calls of storeDicomData before the loader is asked
MaxKeys == 3

-----------------------------------------------------------------------------
(* Values *)

Null == "null"
Absent == "absent"
Planes == {"axial", "coronal", "sagittal"}

\* x || d on numbers: 0 is falsy
OrElse(x, d) == IF x = 0 THEN d ELSE x

Abs(x) == IF x < 0 THEN -x ELSE x

Last(s) == s[Len(s)]
Front(s) == SubSeq(s, 1, Len(s) - 1)
Range(s) == {s[k] : k \in DOMAIN s}

-----------------------------------------------------------------------------
(* classifyPlanes: the plane of one image *)

\* isClose's default eps = 0.1, as the fraction EpsNum / EpsDen
EpsNum == 1
EpsDen == 10

\* normal = row x col  (IOP = row cosines then column cosines, 1-based here)
Cross(iop) ==
    << iop[2] * iop[6] - iop[3] * iop[5],
       iop[3] * iop[4] - iop[1] * iop[6],
       iop[1] * iop[5] - iop[2] * iop[4] >>

\* magnitude squared: normal[0]**2 + normal[1]**2 + normal[2]**2
MagnitudeSq(n) == n[1] * n[1] + n[2] * n[2] + n[3] * n[3]

\* normalized = magnitude > 0 ? normal.map(v => v / magnitude) : [0, 0, 1]
\* kept as [v, m2], standing for the vector v / sqrt(m2)
ZeroNormalDefault == [v |-> <<0, 0, 1>>, m2 |-> 1]

Normalized(iop) ==
    LET normal == Cross(iop)
        m2 == MagnitudeSq(normal)
    IN  IF m2 > 0 THEN [v |-> normal, m2 |-> m2] ELSE ZeroNormalDefault

\* isClose with eps = 0.6: passes from |c|/m > 0.4 on
IsCloseToOneLoose(c, m2) ==
    c * c * EpsDen * EpsDen > (EpsDen - 6 * EpsNum) * (EpsDen - 6 * EpsNum) * m2

\* isClose(Math.abs(c / magnitude), 1): | |c|/m - 1 | < eps.  As |c| <= m this is
\* |c|/m > 1 - eps, i.e. (with both sides non-negative) c^2 * D^2 > (D - N)^2 * m^2.
IsCloseToOne(c, m2) ==
    c * c * EpsDen * EpsDen > (EpsDen - EpsNum) * (EpsDen - EpsNum) * m2

\* Math.max of the three |components|; the common divisor sqrt(m2) keeps the order
MaxComponent(v) ==
    LET a == Abs(v[1])
        b == Abs(v[2])
        c == Abs(v[3])
    IN  IF a >= b /\ a >= c THEN a ELSE IF b >= c THEN b ELSE c

\* the else branch of the loop body with the comparisons in the order x, y, z
DominantAxisXFirst(n) ==
    LET maxComponent == MaxComponent(n.v)
    IN  IF maxComponent = Abs(n.v[1]) THEN "sagittal"
        ELSE IF maxComponent = Abs(n.v[2]) THEN "coronal"
        ELSE "axial"

\* the else branch of the loop body (lines 141-152)
DominantAxis(n) ==
    LET maxComponent == MaxComponent(n.v)
    IN  IF maxComponent = Abs(n.v[3]) THEN "axial"
        ELSE IF maxComponent = Abs(n.v[2]) THEN "coronal"
        ELSE "sagittal"

\* the loop body with the final else branch pushing nowhere
BucketOfNoOblique(iop) ==
    LET n == Normalized(iop)
    IN  IF IsCloseToOne(n.v[3], n.m2) THEN "axial"
        ELSE IF IsCloseToOne(n.v[2], n.m2) THEN "coronal"
        ELSE IF IsCloseToOne(n.v[1], n.m2) THEN "sagittal"
        ELSE "none"

\* the loop body (lines 118-153): the bucket the image is pushed to
BucketOf(iop) ==
    LET n == Normalized(iop)
    IN  IF IsCloseToOne(n.v[3], n.m2) THEN "axial"
        ELSE IF IsCloseToOne(n.v[2], n.m2) THEN "coronal"
        ELSE IF IsCloseToOne(n.v[1], n.m2) THEN "sagittal"
        ELSE DominantAxis(n)

\* img.imageOrientationPatient || [1, 0, 0, 0, 1, 0]: an array is always truthy
IopOf(img) == img.imageOrientationPatient

\* the for loop with axial.push(img) outside the conditional
PrimaryBucketsAxialAlways(images) ==
    [p \in Planes |->
        IF p = "axial" THEN images
        ELSE SelectSeq(images, LAMBDA img : BucketOf(IopOf(img)) = p)]

\* the three arrays after the for loop (lines 111-154), before the fallback
PrimaryBuckets(images) ==
    [p \in Planes |->
        SelectSeq(images, LAMBDA img : BucketOf(IopOf(img)) = p)]

-----------------------------------------------------------------------------
(* Array.prototype.sort with a comparator key(a) - key(b): stable (ES2019).   *)
(* keys[k] is the key of arr[k]; the result is the one stable ascending order *)

\* a sort that puts a later element before an earlier one of equal key
ArraySortUnstable(arr, keys) ==
    LET n == Len(arr)
        Rank(j) == Cardinality({k \in 1..n :
                        keys[k] < keys[j] \/ (keys[k] = keys[j] /\ k > j)}) + 1
    IN  [r \in 1..n |-> arr[CHOOSE j \in 1..n : Rank(j) = r]]

ArraySort(arr, keys) ==
    LET n == Len(arr)
        Rank(j) == Cardinality({k \in 1..n :
                        keys[k] < keys[j] \/ (keys[k] = keys[j] /\ k < j)}) + 1
    IN  [r \in 1..n |-> arr[CHOOSE j \in 1..n : Rank(j) = r]]

\* the sort of the series by an unstable algorithm
sortImagesByPositionUnstable(images) ==
    ArraySortUnstable(images, [k \in 1..Len(images) |-> images[k].sliceLocation])

\* images.sort((a, b) => a.sliceLocation - b.sliceLocation)
sortImagesByPosition(images) ==
    ArraySort(images, [k \in 1..Len(images) |-> images[k].sliceLocation])

\* orderBy with the axis of the next plane (z -> y -> x -> z)
orderByWrongAxis(arr, axisIndex) ==
    ArraySort(arr, [k \in 1..Len(arr) |->
        OrElse(arr[k].imagePositionPatient[((axisIndex + 2) % 3) + 1], 0)])

\* orderBy(arr, axisIndex): (a.imagePositionPatient[axisIndex] || 0) - (b... || 0)
orderBy(arr, axisIndex) ==
    ArraySort(arr, [k \in 1..Len(arr) |->
        OrElse(arr[k].imagePositionPatient[axisIndex + 1], 0)])

\* the fallback with its third statement (the one for sagittal) left out
FallbackNoSagittal(b, images) ==
    LET axial == IF Len(b.axial) = 0 /\ (Len(b.coronal) > 0 \/ Len(b.sagittal) > 0)
                 THEN b.axial \o images ELSE b.axial
        coronal == IF Len(b.coronal) = 0 /\ (Len(axial) > 0 \/ Len(b.sagittal) > 0)
                   THEN b.coronal \o images ELSE b.coronal
    IN  [axial |-> axial, coronal |-> coronal, sagittal |-> b.sagittal]

\* the fallback pushing the images of one non-empty bucket, not the whole list
FallbackOneOther(b, images) ==
    LET axial == IF Len(b.axial) = 0 /\ (Len(b.coronal) > 0 \/ Len(b.sagittal) > 0)
                 THEN (IF Len(b.coronal) > 0 THEN b.coronal ELSE b.sagittal)
                 ELSE b.axial
        coronal == IF Len(b.coronal) = 0 /\ (Len(axial) > 0 \/ Len(b.sagittal) > 0)
                   THEN (IF Len(b.axial) > 0 THEN b.axial ELSE b.sagittal)
                   ELSE b.coronal
        sagittal == IF Len(b.sagittal) = 0 /\ (Len(axial) > 0 \/ Len(coronal) > 0)
                    THEN (IF Len(b.axial) > 0 THEN b.axial ELSE b.coronal)
                    ELSE b.sagittal
    IN  [axial |-> axial, coronal |-> coronal, sagittal |-> sagittal]

\* lines 163-168: the three fallback statements, in order
Fallback(b, images) ==
    LET axial == IF Len(b.axial) = 0 /\ (Len(b.coronal) > 0 \/ Len(b.sagittal) > 0)
                 THEN b.axial \o images ELSE b.axial
        coronal == IF Len(b.coronal) = 0 /\ (Len(axial) > 0 \/ Len(b.sagittal) > 0)
                   THEN b.coronal \o images ELSE b.coronal
        sagittal == IF Len(b.sagittal) = 0 /\ (Len(axial) > 0 \/ Len(coronal) > 0)
                    THEN b.sagittal \o images ELSE b.sagittal
    IN  [axial |-> axial, coronal |-> coronal, sagittal |-> sagittal]

\* classifyPlanes(images) (lines 104-179)
classifyPlanes(images) ==
    LET b == Fallback(PrimaryBuckets(images), images)
    IN  [axialImages |-> orderBy(b.axial, 2),
         coronalImages |-> orderBy(b.coronal, 1),
         sagittalImages |-> orderBy(b.sagittal, 0)]

-----------------------------------------------------------------------------
(* Archive entries and their bytes.                                         *)
(* bytes: [id, len, magic, probe, parses, sl, pos, iop, uid]                *)
(*   id      names the ArrayBuffer's content                                *)
(*   len     bytes.length;  magic: bytes[128..131] = "DICM"                 *)
(*   probe   parseDicom(bytes, {untilTag}) returns;  parses: parseDicom     *)
(*           (bytes) returns (a full parse that returns implies the probe)  *)
(*   sl, pos, iop: the elements x00201041, x00200032, x00200037 as          *)
(*           [present, length, f], f the floats dataSet.float reads         *)
(*   uid     dataSet.string("x0020000e"): Absent, "" or the identifier      *)
(* entry: [name, dir, readable, bytes]; readable: async("arraybuffer")      *)
(*           resolves                                                       *)
(* file:  [opens, entries]; opens: zip.loadAsync(file) resolves             *)

\* an element of the data set: its byte length, the values dataSet.float (or
\* uint16) reads at the indexes inside it, and `past`, what a read at an index
\* behind its last value yields (the bytes that follow it in the buffer)
NoElement == [present |-> FALSE, length |-> 0, f |-> <<>>, past |-> 0]
Element(f) == [present |-> TRUE, length |-> 4 * Len(f), f |-> f, past |-> 0]
ShortElement(f, past) == [present |-> TRUE, length |-> 4 * Len(f), f |-> f, past |-> past]

NoBytes ==
    [id |-> "none", len |-> 0, magic |-> FALSE, probe |-> FALSE, parses |-> FALSE,
     sl |-> NoElement, pos |-> NoElement, iop |-> NoElement, uid |-> Absent,
     ps |-> NoElement, bits |-> NoElement, spp |-> NoElement, slope |-> NoElement]

ImageBytes(id, uid, sl, pos, iop) ==
    [id |-> id, len |-> 1000, magic |-> TRUE, probe |-> TRUE, parses |-> TRUE,
     sl |-> sl, pos |-> pos, iop |-> iop, uid |-> uid,
     ps |-> NoElement, bits |-> NoElement, spp |-> NoElement, slope |-> NoElement]

FileEntry(name, bytes) ==
    [name |-> name, dir |-> FALSE, readable |-> TRUE, bytes |-> bytes]

\* the byte offset past the magic marker that bytes.length must exceed (line 215)
MagicEnd == 132

hasDICM(bytes) == bytes.len > MagicEnd /\ bytes.magic

\* dataSet.float(tag, index): undefined (falsy) when the element is absent
Float(el, index) ==
    IF ~el.present THEN 0
    ELSE IF index < Len(el.f) THEN el.f[index + 1]
    ELSE el.past

\* dataSet.uint16(tag): undefined (falsy) when the element is absent
Uint16(el) == IF el.present THEN el.f[1] ELSE 0

getImagePositionPatient(bytes) ==
    IF bytes.pos.present /\ bytes.pos.length >= 3
    THEN << OrElse(Float(bytes.pos, 0), 0),
            OrElse(Float(bytes.pos, 1), 0),
            OrElse(Float(bytes.pos, 2), 0) >>
    ELSE <<0, 0, 0>>

getImageOrientationPatient(bytes) ==
    IF bytes.iop.present /\ bytes.iop.length >= 6
    THEN << OrElse(Float(bytes.iop, 0), 0), OrElse(Float(bytes.iop, 1), 0),
            OrElse(Float(bytes.iop, 2), 0), OrElse(Float(bytes.iop, 3), 0),
            OrElse(Float(bytes.iop, 4), 0), OrElse(Float(bytes.iop, 5), 0) >>
    ELSE <<1, 0, 0, 0, 1, 0>>

getPixelSpacing(bytes) ==
    IF bytes.ps.present /\ bytes.ps.length >= 2
    THEN << OrElse(Float(bytes.ps, 0), 1), OrElse(Float(bytes.ps, 1), 1) >>
    ELSE <<1, 1>>

\* parseDicomFile(arrayBuffer, filename): <<>> for null, <<image>> otherwise.
\* ref stands for the identity of the object the call allocates.
parseDicomFile(bytes, filename, ref) ==
    IF bytes.parses
    THEN << [ imageId |-> <<"dicom:">> \o filename,
              sliceLocation |-> OrElse(Float(bytes.sl, 0), 0),
              imagePositionPatient |-> getImagePositionPatient(bytes),
              imageOrientationPatient |-> getImageOrientationPatient(bytes),
              pixelSpacing |-> getPixelSpacing(bytes),
              bitsAllocated |-> OrElse(Uint16(bytes.bits), 16),
              samplesPerPixel |-> OrElse(Uint16(bytes.spp), 1),
              rescaleSlope |-> OrElse(Float(bytes.slope, 0), 1),
              ref |-> ref ] >>
    ELSE <<>>

\* getSeriesInstanceUID(arrayBuffer): dataSet.string(...) || null
getSeriesInstanceUID(bytes) ==
    IF bytes.parses /\ bytes.uid # Absent /\ bytes.uid # "" THEN bytes.uid ELSE Null

\* filename.split("/").pop() || filename
JustFilename(filename) ==
    LET slashes == {k \in 1..Len(filename) : filename[k] = "/"}
        from == IF slashes = {} THEN 1
                ELSE (CHOOSE k \in slashes : \A l \in slashes : l <= k) + 1
        seg == SubSeq(filename, from, Len(filename))
    IN  IF seg = <<>> THEN filename ELSE seg

\* Map.prototype.set on a Map kept as a sequence of [key, value] in insertion order
MapHas(m, key) == \E k \in 1..Len(m) : m[k].key = key
MapGet(m, key) == m[CHOOSE k \in 1..Len(m) : m[k].key = key].value
MapSet(m, key, value) ==
    IF MapHas(m, key)
    THEN [k \in 1..Len(m) |-> IF m[k].key = key THEN [key |-> key, value |-> value] ELSE m[k]]
    ELSE Append(m, [key |-> key, value |-> value])

\* storeDicomData(filename, arrayBuffer)
storeDicomData(cache, filename, bytes) == MapSet(cache, filename, bytes.id)

\* String.prototype.includes: t is a run of consecutive characters of s
Includes(s, t) ==
    \E k \in 0..(Len(s) - Len(t)) : SubSeq(s, k + 1, k + Len(t)) = t

\* imageId.replace("dicom:", ""): the first occurrence is taken out
StripScheme(imageId) ==
    LET at == {k \in 1..Len(imageId) : imageId[k] = "dicom:"}
    IN  IF at = {} THEN imageId
        ELSE LET first == CHOOSE k \in at : \A l \in at : k <= l
             IN  SubSeq(imageId, 1, first - 1) \o SubSeq(imageId, first + 1, Len(imageId))

\* Map.prototype.get: undefined when the key is not there
MapGetOrAbsent(m, key) == IF MapHas(m, key) THEN MapGet(m, key) ELSE Absent

\* the loop of lines 29-34: the value of the first key in containment with filename
FirstContaining(cache, filename) ==
    LET hits == {k \in 1..Len(cache) :
                    Includes(cache[k].key, filename) \/ Includes(filename, cache[k].key)}
    IN  IF hits = {} THEN Absent
        ELSE cache[CHOOSE k \in hits : \A l \in hits : k <= l].value

\* the lookup with the containment loop tried before the exact key
CacheLookupContainmentFirst(cache, filename) ==
    LET arrayBuffer == FirstContaining(cache, filename)
    IN  IF arrayBuffer = Absent THEN MapGetOrAbsent(cache, filename) ELSE arrayBuffer

\* lines 27-35 of customDicomLoader
CacheLookup(cache, filename) ==
    LET arrayBuffer == MapGetOrAbsent(cache, filename)
    IN  IF arrayBuffer = Absent THEN FirstContaining(cache, filename) ELSE arrayBuffer

\* customDicomLoader(imageId) up to the hand-over of the bytes to the WADO
\* loader (lines 23-42)
customDicomLoader(cache, imageId) ==
    LET filename == StripScheme(imageId)
        arrayBuffer == CacheLookup(cache, filename)
    IN  [imageId |-> imageId, called |-> TRUE,
         rejected |-> arrayBuffer = Absent, bytes |-> arrayBuffer]

\* JSZip.loadAsync on an instance that already holds files: every entry read is
\* added under its name; a name already present keeps its place and is replaced
LoadIntoAppending(files, entries) == files \o entries

RECURSIVE LoadInto(_, _)
LoadInto(files, entries) ==
    IF entries = <<>> THEN files
    ELSE LET e == Head(entries)
             at == {k \in 1..Len(files) : files[k].name = e.name}
             next == IF at = {} THEN Append(files, e)
                     ELSE [k \in 1..Len(files) |-> IF k \in at THEN e ELSE files[k]]
         IN  LoadInto(next, Tail(entries))

-----------------------------------------------------------------------------
(* The uploads the model draws from *)

AxialIop == <<1, 0, 0, 0, 1, 0>>
CoronalIop == <<1, 0, 0, 0, 0, 1>>
SagittalIop == <<0, 1, 0, 0, 0, 1>>

\* not a DICOM file: no marker, the probe throws
TextBytes ==
    [NoBytes EXCEPT !.id = "text", !.len = 10]
\* the marker is there and parseDicom throws: accepted by the filter, not decoded
TruncatedBytes ==
    [NoBytes EXCEPT !.id = "truncated", !.len = 200, !.magic = TRUE]

\* entries of the uploads of Spec; "f" and "a/f" share a basename, and "f", "g"
\* come with several contents, so that a later upload can replace an entry
HookEntries ==
    { FileEntry(<<"f">>, ImageBytes("f1", "s1", Element(<<1>>),
                                    Element(<<0, 0, 1>>), Element(AxialIop))),
      FileEntry(<<"a", "/", "f">>, ImageBytes("af", "s1", Element(<<0>>),
                                    Element(<<1, 0, 0>>), Element(CoronalIop))),
      FileEntry(<<"f">>, TextBytes),
      FileEntry(<<"g">>, ImageBytes("g0", Absent, NoElement, NoElement, NoElement)),
      FileEntry(<<"g">>, ImageBytes("g2", "s2", Element(<<0>>),
                                    Element(<<0, 0, 0>>), Element(SagittalIop))),
      FileEntry(<<"g">>, TruncatedBytes),
      [name |-> <<"g">>, dir |-> FALSE, readable |-> FALSE, bytes |-> NoBytes],
      [name |-> <<"a", "/">>, dir |-> TRUE, readable |-> TRUE, bytes |-> NoBytes] }

\* sequences over S of length at most n
SeqsUpTo(S, n) == UNION {[1..k -> S] : k \in 0..n}

DistinctNames(es) ==
    \A k, l \in 1..Len(es) : k # l => es[k].name # es[l].name

NotAZip == [opens |-> FALSE, entries |-> <<>>]

HookFiles ==
    {NotAZip} \cup
    { [opens |-> TRUE, entries |-> es] :
        es \in {x \in SeqsUpTo(HookEntries, MaxEntries) : DistinctNames(x)} }

\* the k-th slice of a series upload is named "s" k times
SliceName(k) == [j \in 1..k |-> "s"]

SliceContents ==
    { [sl |-> sl, pos |-> pos, iop |-> iop] :
        sl \in {0, 1},
        pos \in {<<0, 1, 1>>, <<1, 0, 0>>},
        iop \in {AxialIop, CoronalIop, SagittalIop} }

SliceEntry(k, c) ==
    FileEntry(SliceName(k),
              ImageBytes(<<k, c.sl, c.pos, c.iop>>, "s1",
                         Element(<<c.sl>>), Element(c.pos), Element(c.iop)))

SliceFiles ==
    {NotAZip} \cup
    { [opens |-> TRUE, entries |-> [k \in 1..Len(cs) |-> SliceEntry(k, cs[k])]] :
        cs \in SeqsUpTo(SliceContents, MaxSlices) }

Orientations == [1..6 -> (-MaxCos)..MaxCos]

\* buffers for the candidate filter: a marker needs 132 bytes, a full decode
\* that succeeds has passed the probed part, and a buffer that ends with the
\* marker has no meta header for the probe to read
FilterBytes ==
    { [NoBytes EXCEPT !.id = <<len, magic, probe, parses>>, !.len = len,
                      !.magic = magic, !.probe = probe, !.parses = parses] :
        len \in {131, 132, 133}, magic \in BOOLEAN, probe \in BOOLEAN, parses \in BOOLEAN }

PossibleBytes(b) ==
    /\ b.magic => b.len >= 132
    /\ b.parses => b.probe
    /\ b.probe => b.len > 132

\* buffers for the decoder: each attribute absent, there in full, there with
\* fewer values than are read, or there with the value 0
DecodeBytes ==
    { [ImageBytes(<<pos, iop, ps, bits, spp, slope>>, "s1", NoElement, pos, iop)
          EXCEPT !.ps = ps, !.bits = bits, !.spp = spp, !.slope = slope] :
        pos \in {NoElement, Element(<<5, 6, 7>>), ShortElement(<<5>>, 0),
                 ShortElement(<<5>>, 9)},
        iop \in {NoElement, Element(CoronalIop), ShortElement(<<0, 1>>, 9)},
        ps \in {NoElement, Element(<<2, 3>>), Element(<<0, 3>>), ShortElement(<<2>>, 0)},
        bits \in {NoElement, Element(<<8>>), Element(<<0>>)},
        spp \in {NoElement, Element(<<3>>), Element(<<0>>)},
        slope \in {NoElement, Element(<<2>>), Element(<<0>>)} }

\* uploads of two decodable entries, the second with or without a series identifier
PairFiles ==
    { [opens |-> TRUE,
       entries |-> << FileEntry(<<"d">>, ImageBytes(<<"d">>, uid1, NoElement, NoElement,
                                                    NoElement)),
                      FileEntry(<<"e">>, ImageBytes(<<"e">>, uid2, NoElement, NoElement,
                                                    NoElement)) >>] :
        uid1 \in {"s1", ""}, uid2 \in {Absent, "", "s1", "s2"} }

\* uploads of one entry, and those of PairFiles
EntryFiles ==
    {NotAZip} \cup PairFiles \cup
    { [opens |-> TRUE, entries |-> <<[FileEntry(<<"e">>, b) EXCEPT !.dir = dir]>>] :
        b \in {x \in FilterBytes : PossibleBytes(x)} \cup DecodeBytes,
        dir \in BOOLEAN }

\* the keys and the buffers of the caches the loader is tried on
LoaderKeys == {<<"f">>, <<"a", "/", "f">>, <<"g">>, <<"a", "f">>}
LoaderStores == {[key |-> k, id |-> b] : k \in LoaderKeys, b \in {"b1", "b2"}}

RECURSIVE StoreAll(_, _)
StoreAll(cache, stores) ==
    IF stores = <<>> THEN cache
    ELSE StoreAll(storeDicomData(cache, Head(stores).key, Head(stores)), Tail(stores))

\* the caches that up to MaxKeys calls of storeDicomData leave
LoaderCaches == {StoreAll(<<>>, ss) : ss \in SeqsUpTo(LoaderStores, MaxKeys)}

\* the imageIds asked for: the keys, a key in no cache, and the empty name
LoaderIds == {<<"dicom:">> \o k : k \in LoaderKeys \cup {<<"h">>, <<>>}}

-----------------------------------------------------------------------------
(* State after construction of the hook (and of the module part_000) *)

NoFile == NotAZip

\* the locals of an invocation that has not started
IdleLocals ==
    [pc |-> "idle", file |-> NoFile, fileEntries |-> <<>>, i |-> 0,
     processedCount |-> 0, dicomFiles |-> <<>>, seriesMap |-> <<>>, reported |-> <<>>]

NoPrev == [valid |-> FALSE, file |-> NoFile, out |-> <<>>]

\* no call of customDicomLoader yet
NoLookup == [imageId |-> <<>>, called |-> FALSE, rejected |-> FALSE, bytes |-> Absent]

\* no call of classifyPlanes yet.  heap[a] is the content of the array object a;
\* images, axial, coronal and sagittal are the array objects the variables of
\* classifyPlanes refer to
NoArrays ==
    [at |-> "none", heap |-> <<>>, images |-> 0, axial |-> 0, coronal |-> 0,
     sagittal |-> 0]

\* classifyPlanes(sortedImages) is called (line 267)
ArraysOf(sortedImages) ==
    [NoArrays EXCEPT !.at = "called", !.heap = <<sortedImages>>, !.images = 1]

\* the lists classifyPlanes is called with: a series of up to MaxSlices slices
\* after sortImagesByPosition (line 265)
SortedSeries ==
    { sortImagesByPosition(
          [k \in 1..Len(cs) |->
              parseDicomFile(SliceEntry(k, cs[k]).bytes, SliceName(k), k)[1]]) :
        cs \in SeqsUpTo(SliceContents, MaxSlices) \ {<<>>} }

InitFrom(Orientation0, Cache0, Arrays0) ==
    /\ series = <<>>
    /\ isLoading = FALSE
    /\ error = Null
    /\ hasLoaded = FALSE
    /\ loadingProgress = 0
    /\ loadingMessage = <<>>
    /\ zipRef = [current |-> Null, files |-> <<>>]
    /\ dicomDataCache \in Cache0
    /\ pc = "idle"
    /\ file = NoFile
    /\ fileEntries = <<>>
    /\ i = 0
    /\ processedCount = 0
    /\ dicomFiles = <<>>
    /\ seriesMap = <<>>
    /\ runs = 0
    /\ reported = <<>>
    /\ prev = NoPrev
    /\ other = IdleLocals
    /\ orientation \in Orientation0
    /\ landed = {}
    /\ lookup = NoLookup
    /\ arrays \in Arrays0

InitWith(Orientation0) == InitFrom(Orientation0, {<<>>}, {NoArrays})

Init == InitWith({AxialIop})

-----------------------------------------------------------------------------
(* parseZipFile, one action per stretch between two awaits *)

\* ensureZip()
ensureZip(ref) ==
    IF ref.current = Null THEN [ref EXCEPT !.current = "JSZip"] ELSE ref

NoSeriesError == "No valid DICOM files found in the ZIP archive"
\* err.message of the rejection of zip.loadAsync
LoadError == "zip.loadAsync rejected"

\* 20 + (i / fileEntries.length) * 60; the quotient is exact for the lengths
\* of the model, which divide 60
EntryProgressRemaining(k, n) == 20 + ((n - k) * 60) \div n

EntryProgress(k, n) == 20 + (k * 60) \div n

\* lines 262-278: one DicomSeries per entry of seriesMap, in insertion order
OutOf(sm) ==
    LET kept == SelectSeq(sm, LAMBDA e : Len(e.value) > 0)
    IN  [k \in 1..Len(kept) |->
            LET sortedImages == sortImagesByPosition(kept[k].value)
                planes == classifyPlanes(sortedImages)
            IN  [ seriesInstanceUID |-> kept[k].key,
                  seriesDescription |-> "DICOM Series",
                  modality |-> "CT",
                  images |-> sortedImages,
                  axialImages |-> planes.axialImages,
                  coronalImages |-> planes.coronalImages,
                  sagittalImages |-> planes.sagittalImages ]]

\* the end of the invocation with the test of line 283 made before lines 280-281
FinishDecidesFirst(sm, said) ==
    LET out == OutOf(sm)
    IN  /\ IF Len(out) = 0
           THEN /\ reported' = Append(said, 85)
                /\ loadingProgress' = 85
                /\ loadingMessage' = <<"Organizing series...">>
                /\ error' = NoSeriesError
                /\ UNCHANGED <<series, hasLoaded>>
           ELSE /\ reported' = said \o <<85, 100>>
                /\ loadingProgress' = 100
                /\ loadingMessage' = <<"Successfully processed", Len(out), "series">>
                /\ series' = out
                /\ hasLoaded' = TRUE
                /\ UNCHANGED error
        /\ isLoading' = FALSE
        /\ pc' = "done"

\* lines 257-296, entered when the loop is over; said: the progress values the
\* invocation has reported before
Finish(sm, said) ==
    LET out == OutOf(sm)
    IN  /\ reported' = said \o <<85, 100>>
        /\ loadingProgress' = 100
        /\ loadingMessage' = <<"Successfully processed", Len(out), "series">>
        /\ IF Len(out) = 0
           THEN /\ error' = NoSeriesError
                /\ UNCHANGED <<series, hasLoaded>>
           ELSE /\ series' = out
                /\ hasLoaded' = TRUE
                /\ UNCHANGED error
        /\ isLoading' = FALSE
        /\ pc' = "done"

Awaiting == {"loading", "entry"}

\* lines 183-193, up to the await of zip.loadAsync(file)
Begin(f) ==
    /\ runs < MaxRuns
    /\ runs' = runs + 1
    /\ isLoading' = TRUE
    /\ error' = Null
    /\ hasLoaded' = FALSE
    /\ zipRef' = ensureZip(zipRef)
    /\ loadingProgress' = 10
    /\ loadingMessage' = <<"Loading ZIP file...">>
    /\ file' = f
    /\ pc' = "loading"
    /\ fileEntries' = <<>>
    /\ i' = 0
    /\ processedCount' = 0
    /\ dicomFiles' = <<>>
    /\ seriesMap' = <<>>
    /\ reported' = <<0, 10>>
    /\ UNCHANGED <<series, dicomDataCache, planeVars, unitVars>>

\* the list `out` of the invocation that has ended (lines 262-278)
OutOfRun == IF pc = "done" /\ file.opens THEN OutOf(seriesMap) ELSE <<>>

\* parseZipFile(f) called when no invocation is awaiting
Start(f) ==
    /\ pc \in {"idle", "done"}
    /\ Begin(f)
    /\ prev' = [valid |-> pc = "done" /\ file.opens, file |-> file, out |-> OutOfRun]
    /\ UNCHANGED other

\* zip.loadAsync(file) rejects: lines 288-296
LoadFail ==
    /\ pc = "loading"
    /\ ~file.opens
    /\ error' = LoadError
    /\ isLoading' = FALSE
    /\ pc' = "done"
    /\ UNCHANGED <<series, hasLoaded, loadingProgress, loadingMessage, zipRef,
                   dicomDataCache, file, fileEntries, i, processedCount,
                   dicomFiles, seriesMap, runs, reported, planeVars, unitVars, histVars>>

\* zip.loadAsync(file) resolves: lines 195-211 up to the first await of the loop,
\* or, with no entry to process, lines 195-296
LoadOk ==
    /\ pc = "loading"
    /\ file.opens
    /\ LET files == LoadInto(zipRef.files, file.entries)
           entries == SelectSeq(files, LAMBDA e : ~e.dir)
       IN  /\ zipRef' = [zipRef EXCEPT !.files = files]
           /\ fileEntries' = entries
           /\ IF Len(entries) = 0
              THEN Finish(<<>>, Append(reported, 20))
              ELSE /\ reported' = reported \o <<20, EntryProgress(0, Len(entries))>>
                   /\ loadingProgress' = EntryProgress(0, Len(entries))
                   /\ loadingMessage' = <<"Processing", entries[1].name>>
                   /\ pc' = "entry"
                   /\ UNCHANGED <<series, isLoading, error, hasLoaded>>
    /\ UNCHANGED <<dicomDataCache, file, i, processedCount, dicomFiles, seriesMap,
                   runs, planeVars, unitVars, histVars>>

StoreEntryFullPathOnly(cache, filename, bytes) ==
    storeDicomData(cache, filename, bytes)

\* lines 233-238
StoreEntry(cache, filename, bytes) ==
    LET justFilename == JustFilename(filename)
        c1 == storeDicomData(cache, filename, bytes)
    IN  IF justFilename # filename THEN storeDicomData(c1, justFilename, bytes) ELSE c1

\* the grouping without the test of line 246: no identifier is a key like any other
GroupImageUnderNull(sm, bytes, dicomImage) ==
    LET seriesUID == getSeriesInstanceUID(bytes)
    IN  IF MapHas(sm, seriesUID)
        THEN MapSet(sm, seriesUID, Append(MapGet(sm, seriesUID), dicomImage))
        ELSE MapSet(sm, seriesUID, <<dicomImage>>)

\* the grouping without the test of line 247: every image opens a group
GroupImageAlwaysNew(sm, bytes, dicomImage) ==
    LET seriesUID == getSeriesInstanceUID(bytes)
    IN  IF seriesUID = Null THEN sm
        ELSE Append(sm, [key |-> seriesUID, value |-> <<dicomImage>>])

\* lines 245-249
GroupImage(sm, bytes, dicomImage) ==
    LET seriesUID == getSeriesInstanceUID(bytes)
    IN  IF seriesUID = Null THEN sm
        ELSE IF MapHas(sm, seriesUID)
             THEN MapSet(sm, seriesUID, Append(MapGet(sm, seriesUID), dicomImage))
             ELSE MapSet(sm, seriesUID, <<dicomImage>>)

\* zipEntry.async("arraybuffer") of entry i settles: lines 211-255 for that entry,
\* then either lines 206-211 of the next entry or lines 257-296
EntryDone ==
    /\ pc = "entry"
    /\ LET e == fileEntries[i + 1]
           bytes == e.bytes
           accepted == e.readable /\ (hasDICM(bytes) \/ bytes.probe)
           parsed == IF accepted
                     THEN parseDicomFile(bytes, JustFilename(e.name), Len(dicomFiles) + 1)
                     ELSE <<>>
           sm == IF parsed = <<>> THEN seriesMap
                 ELSE GroupImage(seriesMap, bytes, parsed[1])
       IN  /\ dicomDataCache' = IF accepted
                                THEN StoreEntry(dicomDataCache, e.name, bytes)
                                ELSE dicomDataCache
           /\ processedCount' = processedCount + Len(parsed)
           /\ dicomFiles' = dicomFiles \o parsed
           /\ seriesMap' = sm
           /\ i' = i + 1
           /\ IF i + 1 < Len(fileEntries)
              THEN /\ reported' = Append(reported, EntryProgress(i + 1, Len(fileEntries)))
                   /\ loadingProgress' = EntryProgress(i + 1, Len(fileEntries))
                   /\ loadingMessage' = <<"Processing", fileEntries[i + 2].name>>
                   /\ pc' = "entry"
                   /\ UNCHANGED <<series, isLoading, error, hasLoaded>>
              ELSE Finish(sm, reported)
    /\ UNCHANGED <<zipRef, file, fileEntries, runs, planeVars, unitVars, histVars>>

ResetCancels ==
    /\ series' = <<>>
    /\ error' = Null
    /\ hasLoaded' = FALSE
    /\ loadingProgress' = 0
    /\ loadingMessage' = <<>>
    /\ pc' = "idle"
    /\ UNCHANGED <<isLoading, zipRef, dicomDataCache, file, fileEntries, i,
                   processedCount, dicomFiles, seriesMap, runs, reported, planeVars, unitVars,
                   histVars>>

\* reset(): lines 301-307
Reset ==
    /\ series' = <<>>
    /\ error' = Null
    /\ hasLoaded' = FALSE
    /\ loadingProgress' = 0
    /\ loadingMessage' = <<>>
    /\ UNCHANGED <<isLoading, zipRef, dicomDataCache, runVars, planeVars, unitVars, histVars>>

\* classifyPlanes on a list of the one image of orientation o: the buckets it is in
Classify ==
    /\ pc = "idle"
    /\ LET o == orientation
           img == [ imageId |-> <<"dicom:">>, sliceLocation |-> 0,
                    imagePositionPatient |-> <<0, 0, 0>>,
                    imageOrientationPatient |-> o, ref |-> 1 ]
           b == PrimaryBuckets(<<img>>)
       IN  landed' = {p \in Planes : Len(b[p]) > 0}
    /\ pc' = "classified"
    /\ UNCHANGED <<hookVars, zipRef, dicomDataCache, file, fileEntries, i,
                   processedCount, dicomFiles, seriesMap, runs, reported, orientation,
                   histVars, unitVars>>

\* cornerstone calls the loader registered for the scheme "dicom"
LoadImage(imageId) ==
    /\ lookup' = customDicomLoader(dicomDataCache, imageId)
    /\ UNCHANGED <<hookVars, zipRef, dicomDataCache, runVars, planeVars, histVars, arrays>>

\* lines 111-154: three new arrays, each image pushed to one of them
PushToBuckets(a) ==
    LET b == PrimaryBuckets(a.heap[a.images])
        n == Len(a.heap)
    IN  [a EXCEPT !.at = "pushed",
                  !.heap = a.heap \o <<b.axial, b.coronal, b.sagittal>>,
                  !.axial = n + 1, !.coronal = n + 2, !.sagittal = n + 3]

\* the content of the three buckets
BucketsOf(a) ==
    [axial |-> a.heap[a.axial], coronal |-> a.heap[a.coronal],
     sagittal |-> a.heap[a.sagittal]]

\* a fallback that makes an empty bucket refer to the array `images` itself
FillEmptyBucketsByReference(a) ==
    LET b == BucketsOf(a)
        images == a.heap[a.images]
        axial == IF Len(b.axial) = 0 /\ (Len(b.coronal) > 0 \/ Len(b.sagittal) > 0)
                 THEN a.images ELSE a.axial
        coronal == IF Len(b.coronal) = 0 /\ (Len(a.heap[axial]) > 0 \/ Len(b.sagittal) > 0)
                   THEN a.images ELSE a.coronal
        sagittal == IF Len(b.sagittal) = 0
                       /\ (Len(a.heap[axial]) > 0 \/ Len(a.heap[coronal]) > 0)
                    THEN a.images ELSE a.sagittal
    IN  [a EXCEPT !.at = "filled", !.axial = axial, !.coronal = coronal,
                  !.sagittal = sagittal]

\* lines 163-168: the elements of a copy of `images` are pushed to each empty
\* bucket; the bucket stays the array it was
FillEmptyBuckets(a) ==
    LET b == Fallback(BucketsOf(a), a.heap[a.images])
    IN  [a EXCEPT !.at = "filled",
                  !.heap = [x \in 1..Len(a.heap) |->
                              IF x = a.axial THEN b.axial
                              ELSE IF x = a.coronal THEN b.coronal
                              ELSE IF x = a.sagittal THEN b.sagittal
                              ELSE a.heap[x]]]

\* orderBy(arr, axisIndex): Array.prototype.sort sorts the array object in place
SortInPlace(a, arr, axisIndex, at) ==
    [a EXCEPT !.at = at, !.heap[arr] = orderBy(a.heap[arr], axisIndex)]

\* classifyPlanes, a statement group at a time
ClassifyStep ==
    /\ arrays.at \in {"called", "pushed", "filled", "axial sorted", "coronal sorted"}
    /\ arrays' = CASE arrays.at = "called" -> PushToBuckets(arrays)
                   [] arrays.at = "pushed" -> FillEmptyBuckets(arrays)
                   [] arrays.at = "filled" ->
                        SortInPlace(arrays, arrays.axial, 2, "axial sorted")
                   [] arrays.at = "axial sorted" ->
                        SortInPlace(arrays, arrays.coronal, 1, "coronal sorted")
                   [] arrays.at = "coronal sorted" ->
                        SortInPlace(arrays, arrays.sagittal, 0, "returned")
    /\ UNCHANGED <<hookVars, zipRef, dicomDataCache, runVars, planeVars, histVars, lookup>>

\* the locals of the invocation whose steps the actions above take
Locals ==
    [pc |-> pc, file |-> file, fileEntries |-> fileEntries, i |-> i,
     processedCount |-> processedCount, dicomFiles |-> dicomFiles,
     seriesMap |-> seriesMap, reported |-> reported]

\* parseZipFile(f) called while an earlier invocation is awaiting: nothing in
\* lines 181-193 looks at isLoading.  The earlier invocation goes on as `other`.
StartOverlapping(f) ==
    /\ pc \in Awaiting
    /\ other.pc \notin Awaiting
    /\ Begin(f)
    /\ other' = Locals
    /\ UNCHANGED prev

\* the promise the other invocation awaits is the next to settle: its locals
\* become the ones the actions above work on
Resume ==
    /\ other.pc \in Awaiting
    /\ pc' = other.pc
    /\ file' = other.file
    /\ fileEntries' = other.fileEntries
    /\ i' = other.i
    /\ processedCount' = other.processedCount
    /\ dicomFiles' = other.dicomFiles
    /\ seriesMap' = other.seriesMap
    /\ reported' = other.reported
    /\ other' = Locals
    /\ UNCHANGED <<hookVars, zipRef, dicomDataCache, runs, prev, planeVars, unitVars>>

-----------------------------------------------------------------------------
(* Specifications *)

\* the hook under any sequence of uploads and resets
Next ==
    \/ \E f \in HookFiles : Start(f)
    \/ LoadOk
    \/ LoadFail
    \/ EntryDone
    \/ Reset

Spec == Init /\ [][Next]_vars

\* the first upload of a hook instance, an archive of slices of one series
StartFirst == runs = 0 /\ \E f \in SliceFiles : Start(f)

NextSeries ==
    \/ StartFirst
    \/ LoadOk
    \/ LoadFail
    \/ EntryDone

SpecSeries == Init /\ [][NextSeries]_vars

\* the plane classification applied to one orientation, any of the range
InitPlane == InitWith(Orientations)

NextPlane == Classify

SpecPlane == InitPlane /\ [][NextPlane]_vars

\* the hook on its first upload, of one entry
StartEntry == runs = 0 /\ \E f \in EntryFiles : Start(f)

NextEntry ==
    \/ StartEntry
    \/ LoadOk
    \/ LoadFail
    \/ EntryDone

SpecEntry == Init /\ [][NextEntry]_vars

\* classifyPlanes on the lists of SortedSeries, with its arrays as objects
InitArrays == InitFrom({AxialIop}, {<<>>}, {ArraysOf(images) : images \in SortedSeries})

NextArrays == ClassifyStep

SpecArrays == InitArrays /\ [][NextArrays]_vars

\* customDicomLoader on the caches of LoaderCaches
InitLoader == InitFrom({AxialIop}, LoaderCaches, {NoArrays})

NextLoader == \E imageId \in LoaderIds : LoadImage(imageId)

SpecLoader == InitLoader /\ [][NextLoader]_vars

\* the hook when parseZipFile may be called while an invocation is awaiting
NextOverlap ==
    \/ \E f \in HookFiles : Start(f)
    \/ \E f \in HookFiles : StartOverlapping(f)
    \/ Resume
    \/ LoadOk
    \/ LoadFail
    \/ EntryDone
    \/ Reset

SpecOverlap == Init /\ [][NextOverlap]_vars

\* the promise an invocation awaits settles and the invocation goes on: from
\* `loading` to the loop or the end, from an entry to the next one or the end
Settles ==
    /\ pc \in Awaiting
    /\ pc' \in {"entry", "done"}
    /\ i' \in {i, i + 1}
    /\ <<pc', i'>> # <<pc, i>>

\* the hook with every awaited promise settling (zip.loadAsync and
\* zipEntry.async resolve or reject)
FairSpec == Spec /\ WF_<<pc, i>>(Settles)

-----------------------------------------------------------------------------
(* Properties of the series a run publishes (SpecSeries) *)

Refs(arr) == {arr[k].ref : k \in 1..Len(arr)}

\* a and b hold the same objects, each once
SameObjectsOnce(a, b) ==
    /\ Len(a) = Len(b)
    /\ Refs(a) = Refs(b)
    /\ Cardinality(Refs(a)) = Len(a)

\* the index of the object img in arr
IndexIn(arr, img) == CHOOSE k \in 1..Len(arr) : arr[k].ref = img.ref

AscendingBy(arr, axis) ==
    \A p, q \in 1..Len(arr) :
        p < q => arr[p].imagePositionPatient[axis] <= arr[q].imagePositionPatient[axis]

\* among equal keys, the order of the list `images` is kept
TiesKeepOrderOf(arr, axis, images) ==
    \A p, q \in 1..Len(arr) :
        (p < q /\ arr[p].imagePositionPatient[axis] = arr[q].imagePositionPatient[axis])
            => IndexIn(images, arr[p]) < IndexIn(images, arr[q])

Published == {series[k] : k \in 1..Len(series)}

NonEmptyPlanes(b) == {p \in Planes : Len(b[p]) > 0}

\* the place in the enumeration of the entry an image was decoded from (the
\* entries of one archive of slices have distinct basenames)
EntryIndexOf(img) ==
    CHOOSE k \in 1..Len(fileEntries) :
        <<"dicom:">> \o JustFilename(fileEntries[k].name) = img.imageId

\* C1: in every published series, images is ascending by sliceLocation and two
\* images of equal sliceLocation stand in the order in which their entries were
\* decoded (the order of enumeration; ref is the rank of the decode in the run)
C1_ImagesSortedStable ==
    \A s \in Published :
        \A p, q \in 1..Len(s.images) :
            p < q =>
                /\ s.images[p].sliceLocation <= s.images[q].sliceLocation
                /\ (s.images[p].sliceLocation = s.images[q].sliceLocation
                        => /\ s.images[p].ref < s.images[q].ref
                           /\ EntryIndexOf(s.images[p]) < EntryIndexOf(s.images[q]))

\* a published series in which the sort moved an image and kept a tie in decode order
C1_Witness ==
    /\ pc = "done" /\ hasLoaded
    /\ \E s \in Published :
        /\ \E p, q \in 1..Len(s.images) : p < q /\ s.images[p].ref > s.images[q].ref
        /\ \E p, q \in 1..Len(s.images) :
              p < q /\ s.images[p].sliceLocation = s.images[q].sliceLocation

\* C2: before the fallback, every image of the list given to classifyPlanes is in
\* exactly one of the three buckets: they are pairwise disjoint and cover the list
C2_PrimaryPartition ==
    \A s \in Published :
        LET b == PrimaryBuckets(s.images)
        IN  /\ \A p, q \in Planes : p # q => Refs(b[p]) \cap Refs(b[q]) = {}
            /\ UNION {Refs(b[p]) : p \in Planes} = Refs(s.images)
            /\ Len(b.axial) + Len(b.coronal) + Len(b.sagittal) = Len(s.images)

\* a published series whose images went to at least two buckets
C2_Witness ==
    /\ pc = "done" /\ hasLoaded
    /\ \E s \in Published : Cardinality(NonEmptyPlanes(PrimaryBuckets(s.images))) >= 2

\* C3: when all images of a series classify into one plane, the three returned
\* buckets hold the same objects, each once, axial ascending by z, coronal by y,
\* sagittal by x
C3_SinglePlaneFallback ==
    \A s \in Published :
        Cardinality(NonEmptyPlanes(PrimaryBuckets(s.images))) = 1 =>
            /\ SameObjectsOnce(s.axialImages, s.images)
            /\ SameObjectsOnce(s.coronalImages, s.images)
            /\ SameObjectsOnce(s.sagittalImages, s.images)
            /\ AscendingBy(s.axialImages, 3)
            /\ AscendingBy(s.coronalImages, 2)
            /\ AscendingBy(s.sagittalImages, 1)

\* a published series of three coronal images whose three buckets differ in order
C3_Witness ==
    /\ pc = "done" /\ hasLoaded
    /\ \E s \in Published :
        /\ Len(s.images) = 3
        /\ NonEmptyPlanes(PrimaryBuckets(s.images)) = {"coronal"}
        /\ s.sagittalImages # s.coronalImages
        /\ Len(s.axialImages) = 3

\* C4: no bucket of a published series is empty; a bucket holds exactly the images
\* classified into its plane when there are any, and all images of the series
\* otherwise
C4_BucketsPrimaryOrAll ==
    \A s \in Published :
        LET b == PrimaryBuckets(s.images)
            Holds(bucket, p) ==
                /\ Len(bucket) > 0
                /\ IF Len(b[p]) > 0
                   THEN SameObjectsOnce(bucket, b[p])
                   ELSE SameObjectsOnce(bucket, s.images)
        IN  /\ Holds(s.axialImages, "axial")
            /\ Holds(s.coronalImages, "coronal")
            /\ Holds(s.sagittalImages, "sagittal")

\* a published series with images in two planes and none in the third, whose
\* third bucket holds all of them
C4_Witness ==
    /\ pc = "done" /\ hasLoaded
    /\ \E s \in Published :
        LET b == PrimaryBuckets(s.images)
        IN  /\ NonEmptyPlanes(b) = {"axial", "coronal"}
            /\ Len(s.sagittalImages) = Len(s.images)
            /\ Len(s.axialImages) < Len(s.images)

\* C5: whatever its membership, the axial bucket is ascending by position z, the
\* coronal bucket by y, the sagittal bucket by x, and images of equal key keep
\* their relative order of the list images
C5_BucketsOrdered ==
    \A s \in Published :
        /\ AscendingBy(s.axialImages, 3)
        /\ AscendingBy(s.coronalImages, 2)
        /\ AscendingBy(s.sagittalImages, 1)
        /\ TiesKeepOrderOf(s.axialImages, 3, s.images)
        /\ TiesKeepOrderOf(s.coronalImages, 2, s.images)
        /\ TiesKeepOrderOf(s.sagittalImages, 1, s.images)

\* a published series with a fallback bucket that the re-sort reordered and that
\* holds two images of equal key
C5_Witness ==
    /\ pc = "done" /\ hasLoaded
    /\ \E s \in Published :
        /\ Len(PrimaryBuckets(s.images).sagittal) = 0
        /\ s.sagittalImages # s.images
        /\ \E p, q \in 1..Len(s.sagittalImages) :
              /\ p < q
              /\ s.sagittalImages[p].imagePositionPatient[1]
                    = s.sagittalImages[q].imagePositionPatient[1]

-----------------------------------------------------------------------------
(* Properties of the plane classification (SpecPlane) *)

\* C6: every orientation, a zero or parallel row/column pair included, is pushed
\* to exactly one bucket, and the three axis-aligned orientations go to axial,
\* coronal and sagittal
C6_PlaneTotal ==
    pc = "classified" =>
        /\ Cardinality(landed) = 1
        /\ landed \subseteq Planes
        /\ (orientation = <<1, 0, 0, 0, 1, 0>> => landed = {"axial"})
        /\ (orientation = <<1, 0, 0, 0, 0, 1>> => landed = {"coronal"})
        /\ (orientation = <<0, 1, 0, 0, 0, 1>> => landed = {"sagittal"})

\* a parallel row/column pair (zero normal), classified
C6_Witness ==
    /\ pc = "classified"
    /\ orientation = <<1, 0, 0, 1, 0, 0>>
    /\ landed = {"axial"}

\* the rules of the claim on the normal n = row x col, with |n|^2 = n.n:
\* "|c|/|n| within 0.1 of 1" is 0.9^2 * |n|^2 < c^2 < 1.1^2 * |n|^2
SquareOfNormal(o) ==
    LET n == Cross(o)
    IN  IF MagnitudeSq(n) = 0 THEN <<0, 0, 1>>
        ELSE <<n[1] * n[1], n[2] * n[2], n[3] * n[3]>>

WithinTenthOfOne(c2, len2) == 81 * len2 < 100 * c2 /\ 100 * c2 < 121 * len2

RulePlane(o) ==
    LET q == SquareOfNormal(o)
        len2 == q[1] + q[2] + q[3]
    IN  CASE WithinTenthOfOne(q[3], len2) -> "axial"
          [] ~WithinTenthOfOne(q[3], len2) /\ WithinTenthOfOne(q[2], len2) -> "coronal"
          [] ~WithinTenthOfOne(q[3], len2) /\ ~WithinTenthOfOne(q[2], len2)
                /\ WithinTenthOfOne(q[1], len2) -> "sagittal"
          [] OTHER ->
                IF q[3] >= q[2] /\ q[3] >= q[1] THEN "axial"
                ELSE IF q[2] >= q[1] THEN "coronal"
                ELSE "sagittal"

\* C7: the plane is decided from the normal (normalised, or (0,0,1) when zero) by:
\* axial if |n.z| is within 0.1 of 1, else coronal if |n.y| is, else sagittal if
\* |n.x| is, else the largest component, ties axial before coronal before sagittal
C7_PlaneRules ==
    pc = "classified" => landed = {RulePlane(orientation)}

\* an oblique normal (0,1,1): no tolerance test passes and y ties with z
C7_Witness ==
    /\ pc = "classified"
    /\ Cross(orientation) = <<0, 1, 1>>
    /\ landed = {"axial"}

-----------------------------------------------------------------------------
(* Properties of the outcome of a run (Spec) *)

\* the step on which an invocation of parseZipFile ends
RunEnds == pc \in {"loading", "entry"} /\ pc' = "done"

Filtered(e) == e.dir \/ ~e.readable \/ ~(hasDICM(e.bytes) \/ e.bytes.probe)
Decodes(e) == ~Filtered(e) /\ e.bytes.parses
Grouped(e) == Decodes(e) /\ getSeriesInstanceUID(e.bytes) # Null

EntriesOf(f) == {f.entries[k] : k \in 1..Len(f.entries)}

\* an archive in which no entry passes the candidate filter, or none decodes
NoCandidate(f) == f.opens /\ \A e \in EntriesOf(f) : ~Decodes(e)

\* an archive with a decoded entry and no decoded entry with a series identifier
DecodesWithoutSeries(f) ==
    /\ f.opens
    /\ \E e \in EntriesOf(f) : Decodes(e)
    /\ \A e \in EntriesOf(f) : ~Grouped(e)

\* C8: a run over an archive in which no entry passes the filter (or none
\* decodes) ends failed: error is set, hasLoaded stays false and no series list
\* is published
C8_NoCandidateFails ==
    [][ (RunEnds /\ NoCandidate(file))
            => (error' # Null /\ hasLoaded' = FALSE /\ series' = series) ]_vars

\* C9: a run over an archive with a decoded entry and no recoverable series
\* identifier ends failed (error set, hasLoaded false) with a processed count
\* greater than zero
C9_NoSeriesIdFails ==
    [][ (RunEnds /\ DecodesWithoutSeries(file))
            => (error' # Null /\ hasLoaded' = FALSE /\ processedCount' > 0) ]_vars

\* the loop of parseZipFile over the entries es of an archive alone
RECURSIVE LoopOver(_, _, _)
LoopOver(es, decoded, sm) ==
    IF es = <<>> THEN sm
    ELSE LET e == Head(es)
             img == parseDicomFile(e.bytes, JustFilename(e.name), decoded + 1)
         IN  IF Decodes(e)
             THEN LoopOver(Tail(es), decoded + 1, GroupImage(sm, e.bytes, img[1]))
             ELSE LoopOver(Tail(es), decoded, sm)

\* the series list of the archive f with its failing entries removed
SeriesWithoutFailing(f) ==
    OutOf(LoopOver(SelectSeq(f.entries, Grouped), 0, <<>>))

\* a series list without the identity of its objects
Values(list) ==
    LET strip(arr) == [k \in 1..Len(arr) |-> [arr[k] EXCEPT !.ref = 0]]
    IN  [k \in 1..Len(list) |->
            [list[k] EXCEPT !.images = strip(@), !.axialImages = strip(@),
                            !.coronalImages = strip(@), !.sagittalImages = strip(@)]]

\* C10: a run fails exactly when the archive cannot be opened or no series was
\* assembled; it ends only after its last entry; and what it publishes is the
\* series list of the same archive with the failing entries removed
C10_FailuresIsolated ==
    [][ RunEnds =>
          /\ (error' # Null) = (~file.opens \/ Len(OutOf(seriesMap')) = 0)
          /\ (file.opens => i' = Len(fileEntries'))
          /\ (error' = Null =>
                /\ hasLoaded'
                /\ Values(series') = Values(SeriesWithoutFailing(file)))
          /\ (file.opens /\ Len(SeriesWithoutFailing(file)) > 0 => error' = Null) ]_vars

-----------------------------------------------------------------------------
(* Progress, the byte cache and the archive container across invocations *)

\* C11: the values an invocation passes to setLoadingProgress start with 0,
\* never decrease and all lie in 0..100, whatever the number of entries (zero
\* included); until a reset, loadingProgress is the last of them
C11_ProgressMonotone ==
    /\ reported # <<>> => reported[1] = 0
    /\ \A k \in 1..Len(reported) :
          /\ reported[k] \in 0..100
          /\ k > 1 => reported[k - 1] <= reported[k]
    /\ reported # <<>> => loadingProgress \in {0, Last(reported)}

\* an invocation over two entries has ended after one over an empty archive
C11_Witness ==
    /\ pc = "done"
    /\ Len(fileEntries) = 2
    /\ reported = <<0, 10, 20, 20, 50, 85, 100>>
    /\ prev.valid
    /\ prev.file.entries = <<>>

\* the keys an invocation on archive f stores in the byte cache (lines 233-238)
Accepted(e) == ~Filtered(e)
KeysOf(f) ==
    UNION {{e.name, JustFilename(e.name)} : e \in {x \in EntriesOf(f) : Accepted(x)}}
CacheKeys == {dicomDataCache[k].key : k \in 1..Len(dicomDataCache)}

\* C12: once a second invocation has ended, the byte cache holds no key that
\* only an earlier invocation stored
C12_CacheInvalidated ==
    pc = "done" /\ runs >= 2 => CacheKeys \subseteq KeysOf(file)

\* C13: the entries an invocation enumerates, and the images of the series it
\* publishes, come from the archive it was called with
C13_OnlyOwnEntries ==
    /\ \A k \in 1..Len(fileEntries) : fileEntries[k] \in EntriesOf(file)
    /\ pc = "done" /\ hasLoaded =>
          \A k \in 1..Len(series) : \A l \in 1..Len(series[k].images) :
              \E e \in EntriesOf(file) :
                  /\ Grouped(e)
                  /\ series[k].images[l].imageId = <<"dicom:">> \o JustFilename(e.name)

\* C14: an invocation on the archive the invocation before it was called with
\* assembles the same series list: the same identifiers in the same order, each
\* with the same images in the same order in images and in the three planes
C14_SameArchiveSameSeries ==
    pc = "done" /\ file.opens /\ prev.valid /\ prev.file = file =>
        Values(OutOfRun) = Values(prev.out)

\* two invocations in a row on one archive, each assembling a series
C14_Witness ==
    /\ pc = "done"
    /\ file.opens
    /\ prev.valid
    /\ prev.file = file
    /\ hasLoaded
    /\ Len(OutOfRun) > 0
    /\ Values(series) = Values(prev.out)

\* C15: an invocation that has ended with an error leaves hasLoaded false and
\* the series list empty
C15_FailureLeavesNoSeries ==
    pc = "done" /\ error # Null => ~hasLoaded /\ series = <<>>

\* the entries the invocation has enumerated and the filter has accepted
AcceptedEntries == {e \in Range(fileEntries) : Accepted(e)}

\* the bytes of the accepted entries that storeDicomData was given under key
StoredUnder(key) ==
    {x.bytes.id : x \in {y \in AcceptedEntries : key \in {y.name, JustFilename(y.name)}}}

\* C19: when an invocation has ended, each entry the filter accepted has its
\* full path and its base name as keys of the byte cache (one key when the two
\* are equal), and each of the two resolves to the bytes of an accepted entry
\* stored under it
C19_BothKeysStored ==
    /\ \A k, l \in 1..Len(dicomDataCache) :
          k # l => dicomDataCache[k].key # dicomDataCache[l].key
    /\ pc = "done" /\ file.opens =>
          \A e \in AcceptedEntries : \A key \in {e.name, JustFilename(e.name)} :
              /\ MapHas(dicomDataCache, key)
              /\ MapGet(dicomDataCache, key) \in StoredUnder(key)

\* the entry a/f was accepted and is cached under a/f and under f
C19_Witness ==
    /\ pc = "done"
    /\ \E e \in AcceptedEntries :
          /\ e.name = <<"a", "/", "f">>
          /\ MapGet(dicomDataCache, e.name) = e.bytes.id
          /\ MapGet(dicomDataCache, <<"f">>) = e.bytes.id
    /\ Len(dicomDataCache) = 2

\* C20: the records an invocation has decoded from distinct entries have
\* pairwise distinct imageId values
C20_ImageIdsDistinct ==
    \A k, l \in 1..Len(dicomFiles) :
        k # l => dicomFiles[k].imageId # dicomFiles[l].imageId

-----------------------------------------------------------------------------
(* Outcome signals, overlapping invocations and termination *)

\* C16: in every state the hook reaches by calls of parseZipFile and reset,
\* hasLoaded implies a non-empty series list and no error
C16_SuccessExcludesFailure ==
    hasLoaded => series # <<>> /\ error = Null

\* what every invocation writes: the hook's state, the archive container and
\* the byte cache
SharedState == <<hookVars, zipRef, dicomDataCache>>

\* a step of the invocation the actions work on
RunStep == LoadOk \/ LoadFail \/ EntryDone

\* C17: while another invocation is awaiting, no step of an invocation writes
\* the hook's state, the archive container or the byte cache
C17_OneRunAtATime ==
    [][RunStep /\ other.pc \in Awaiting => UNCHANGED SharedState]_vars

\* C18: an invocation that awaits ends, whatever resets happen meanwhile; when
\* it ends isLoading is false and either the series are published with
\* hasLoaded true or the error is set.  (The steps that Settles is fair to are
\* the steps of the invocation.)
C18_RunTerminates ==
    /\ (pc \in Awaiting) ~> (pc = "done")
    /\ [][RunStep <=> Settles]_vars
    /\ [][RunEnds =>
            /\ isLoading' = FALSE
            /\ \/ hasLoaded' /\ series' # <<>> /\ series' = OutOf(seriesMap')
               \/ error' # Null /\ ~hasLoaded']_vars

\* an invocation has ended with the error of loadAsync after a reset that came
\* while it was awaiting
C18_Witness ==
    /\ pc = "done"
    /\ error = LoadError
    /\ loadingProgress = 0
    /\ reported = <<0, 10>>
    /\ ~isLoading

-----------------------------------------------------------------------------
(* The loader's lookup, the candidate filter and the attribute decoder *)

\* the places of the cache whose key is the name asked for, and those whose key
\* contains it or is contained in it
ExactAt(name) == {k \in 1..Len(dicomDataCache) : dicomDataCache[k].key = name}
ContainingAt(name) ==
    {k \in 1..Len(dicomDataCache) :
        \/ Includes(dicomDataCache[k].key, name)
        \/ Includes(name, dicomDataCache[k].key)}

\* C21: a lookup returns the value stored under exactly the key asked for when
\* there is one; otherwise the value of the first key, in insertion order, in
\* containment with it; otherwise it is rejected and returns no bytes
C21_ExactThenContainment ==
    lookup.called =>
        LET name == StripScheme(lookup.imageId)
        IN  IF ExactAt(name) # {}
            THEN /\ ~lookup.rejected
                 /\ \A k \in ExactAt(name) : lookup.bytes = dicomDataCache[k].value
            ELSE IF ContainingAt(name) # {}
            THEN /\ ~lookup.rejected
                 /\ \E k \in ContainingAt(name) :
                       /\ \A l \in ContainingAt(name) : k <= l
                       /\ lookup.bytes = dicomDataCache[k].value
            ELSE lookup.rejected /\ lookup.bytes = Absent

\* f was asked for from a cache that holds a/f before f, with different bytes:
\* the exact key wins over the earlier containing key
C21_Witness ==
    /\ lookup.called
    /\ lookup.imageId = <<"dicom:", "f">>
    /\ Len(dicomDataCache) >= 2
    /\ dicomDataCache[1] = [key |-> <<"a", "/", "f">>, value |-> "b1"]
    /\ dicomDataCache[2] = [key |-> <<"f">>, value |-> "b2"]
    /\ lookup.bytes = "b2"

\* the one entry of the upload, once the invocation on it has ended
TheEntry == file.entries[1]
EntryEnded == pc = "done" /\ file.opens /\ Len(file.entries) = 1

\* the 4-byte marker is at offsets 128..131 of a buffer long enough to hold it
MarkerThere(b) == b.magic /\ b.len >= 128 + 4

\* C22: an entry is cached and handed to the decoder exactly when it is no
\* directory and its bytes carry the marker or pass the probe; an entry that is
\* not is neither cached, decoded nor counted
C22_FilterAccepts ==
    EntryEnded =>
        LET e == TheEntry
            processed == ~e.dir /\ (MarkerThere(e.bytes) \/ e.bytes.probe)
        IN  /\ MapHas(dicomDataCache, e.name) <=> processed
            /\ Len(dicomFiles) = 1 <=> (processed /\ e.bytes.parses)
            /\ processedCount = Len(dicomFiles)
            /\ ~processed => dicomDataCache = <<>> /\ dicomFiles = <<>>

\* what the decoder is to return for an attribute of n values: the values read
\* when the element is there with at least n values, the default otherwise
Decoded(el, n, default) ==
    IF el.present /\ Len(el.f) >= n THEN SubSeq(el.f, 1, n) ELSE default

\* C23: bitsAllocated, samplesPerPixel, rescaleSlope and pixelSpacing are the
\* values decoded from the element when it is there with values enough, a
\* decoded 0 included, and the default otherwise; the decode of a buffer that
\* parses returns a record whatever attributes are missing
C23_DefaultOnlyWhenMissing ==
    EntryEnded /\ ~TheEntry.dir /\ TheEntry.bytes.parses =>
        /\ Len(dicomFiles) = 1
        /\ LET b == TheEntry.bytes
               img == dicomFiles[1]
           IN  /\ <<img.bitsAllocated>> = Decoded(b.bits, 1, <<16>>)
               /\ <<img.samplesPerPixel>> = Decoded(b.spp, 1, <<1>>)
               /\ <<img.rescaleSlope>> = Decoded(b.slope, 1, <<1>>)
               /\ img.pixelSpacing = Decoded(b.ps, 2, <<1, 1>>)

\* C24: position, orientation and pixel spacing are the first 3, 6 and 2 values
\* of an element that has that many, or the whole default vector
C24_WholeVectorOrDefault ==
    EntryEnded /\ ~TheEntry.dir /\ TheEntry.bytes.parses /\ Len(dicomFiles) = 1 =>
        LET b == TheEntry.bytes
            img == dicomFiles[1]
        IN  /\ img.imagePositionPatient = Decoded(b.pos, 3, <<0, 0, 0>>)
            /\ img.imageOrientationPatient = Decoded(b.iop, 6, <<1, 0, 0, 0, 1, 0>>)
            /\ img.pixelSpacing = Decoded(b.ps, 2, <<1, 1>>)

-----------------------------------------------------------------------------
(* Grouping into series *)

\* the entries the loop has been over and that were decoded, in decode order:
\* dicomFiles[k] is the record of DecodedEntries[k]
DecodedEntries == SelectSeq(SubSeq(fileEntries, 1, i), Decodes)

\* the places (group, list, index) of the series list `out` that hold the
\* image object ref
PlacesOf(out, ref) ==
    { <<g, l, n>> \in (1..Len(out)) \X {"images", "axialImages", "coronalImages",
                                        "sagittalImages"} \X (1..Len(dicomFiles)) :
        n <= Len(out[g][l]) /\ out[g][l][n].ref = ref }

\* C25: an entry that decodes and has no series identifier (absent or empty) is
\* counted and appended to dicomFiles, and is in no list of a group of the
\* series map or of the series list produced
C25_NoIdentifierNoGroup ==
    /\ Len(dicomFiles) = Len(DecodedEntries)
    /\ processedCount = Len(DecodedEntries)
    /\ \A k \in 1..Len(DecodedEntries) :
          getSeriesInstanceUID(DecodedEntries[k].bytes) = Null =>
              /\ dicomFiles[k].ref = k
              /\ \A g \in 1..Len(seriesMap) : k \notin Refs(seriesMap[g].value)
              /\ PlacesOf(OutOfRun, k) = {}
              /\ hasLoaded => PlacesOf(series, k) = {}

\* two entries were decoded, the second with an empty identifier, and the
\* series of the first was published
C25_Witness ==
    /\ pc = "done"
    /\ hasLoaded
    /\ processedCount = 2
    /\ Len(dicomFiles) = 2
    /\ fileEntries[2].bytes.uid = ""
    /\ Len(series) = 1
    /\ Len(series[1].images) = 1

\* the series identifiers the invocation recovered
RecoveredIds ==
    {getSeriesInstanceUID(DecodedEntries[k].bytes) : k \in 1..Len(DecodedEntries)}
        \ {Null}

\* C26: the series list produced has one group for each identifier recovered
\* and no other, none without images; an image decoded with an identifier is
\* once in `images` of the group of that identifier and in `images` of no other
C26_OneGroupPerIdentifier ==
    pc = "done" /\ file.opens =>
        LET out == OutOfRun
        IN  /\ {out[g].seriesInstanceUID : g \in 1..Len(out)} = RecoveredIds
            /\ Len(out) = Cardinality(RecoveredIds)
            /\ \A g \in 1..Len(out) : Len(out[g].images) > 0
            /\ \A k \in 1..Len(DecodedEntries) :
                  LET uid == getSeriesInstanceUID(DecodedEntries[k].bytes)
                      at == {pl \in PlacesOf(out, k) : pl[2] = "images"}
                  IN  uid # Null =>
                        /\ Cardinality(at) = 1
                        /\ \A pl \in at : out[pl[1]].seriesInstanceUID = uid
            /\ hasLoaded => series = out

\* two series were published, one of them with two images
C26_Witness ==
    /\ pc = "done"
    /\ hasLoaded
    /\ Len(series) = 2
    /\ \E g \in 1..2 : Len(series[g].images) = 2
    /\ Cardinality(RecoveredIds) = 2

\* C27: once an invocation has published its series, the loader asked with the
\* imageId of a published image hands on the bytes of the entry that image was
\* decoded from
C27_ImageIdResolvesToOwnBytes ==
    pc = "done" /\ hasLoaded =>
        \A g \in 1..Len(series) : \A n \in 1..Len(series[g].images) :
            LET img == series[g].images[n]
                answer == customDicomLoader(dicomDataCache, img.imageId)
            IN  /\ ~answer.rejected
                /\ answer.bytes = DecodedEntries[img.ref].bytes.id

-----------------------------------------------------------------------------
(* The tolerance tests against the dominant axis (SpecPlane) *)

\* the plane of the largest of |n.x|, |n.y|, |n.z| of the normal n = row x col,
\* z before y before x on ties, axial for the zero normal
DominantPlane(o) ==
    LET q == SquareOfNormal(o)
    IN  IF q[3] >= q[2] /\ q[3] >= q[1] THEN "axial"
        ELSE IF q[2] >= q[1] THEN "coronal"
        ELSE "sagittal"

\* the components of the normalised normal within 0.1 of 1 in absolute value
ComponentsNearOne(o) ==
    LET q == SquareOfNormal(o)
    IN  {c \in 1..3 : WithinTenthOfOne(q[c], q[1] + q[2] + q[3])}

\* C28: the bucket an orientation is pushed to is the plane of the largest
\* component of its normal; at most one component is within 0.1 of 1
C28_ToleranceAgreesWithDominant ==
    /\ Cardinality(ComponentsNearOne(orientation)) <= 1
    /\ pc = "classified" => landed = {DominantPlane(orientation)}

\* a normal off the axes whose y component passes the tolerance test,
\* classified coronal
C28_Witness ==
    /\ pc = "classified"
    /\ ComponentsNearOne(orientation) = {2}
    /\ Cross(orientation)[1] # 0
    /\ Cross(orientation)[3] # 0
    /\ landed = {"coronal"}

-----------------------------------------------------------------------------
(* The arrays of classifyPlanes (SpecArrays) *)

\* the array objects of an arrays record that exist
ArrayObjects(a) == {a.images, a.axial, a.coronal, a.sagittal} \ {0}

\* C29: the three buckets and `images` are four array objects that hold image
\* objects of `images`; a sort of one bucket leaves the content of `images`
\* and of the other buckets as it was, `images` stays in the order it came in,
\* and what is returned is what classifyPlanes computes
C29_BucketsAreOwnArrays ==
    [][ arrays' # arrays =>
          LET a == arrays'
          IN  /\ a.at # "called" => Cardinality(ArrayObjects(a)) = 4
              /\ \A x \in ArrayObjects(a) : Refs(a.heap[x]) \subseteq Refs(a.heap[a.images])
              /\ a.heap[a.images] = arrays.heap[arrays.images]
              /\ a.heap[a.images] = sortImagesByPosition(a.heap[a.images])
              /\ arrays.at \in {"filled", "axial sorted", "coronal sorted"} =>
                    Cardinality({x \in ArrayObjects(a) : a.heap[x] # arrays.heap[x]}) <= 1
              /\ a.at = "returned" =>
                    LET planes == classifyPlanes(a.heap[a.images])
                    IN  /\ a.heap[a.axial] = planes.axialImages
                        /\ a.heap[a.coronal] = planes.coronalImages
                        /\ a.heap[a.sagittal] = planes.sagittalImages ]_vars

\* classifyPlanes has returned for three axial images: coronal and sagittal are
\* fallback buckets with all of them, sorted into an order other than that of
\* `images`
C29_Witness ==
    /\ arrays.at = "returned"
    /\ Len(arrays.heap[arrays.images]) = 3
    /\ \A k \in 1..3 : BucketOf(IopOf(arrays.heap[arrays.images][k])) = "axial"
    /\ Len(arrays.heap[arrays.sagittal]) = 3
    /\ arrays.heap[arrays.sagittal] # arrays.heap[arrays.images]
    /\ arrays.heap[arrays.coronal] # arrays.heap[arrays.sagittal]

-----------------------------------------------------------------------------
(* Progress at the end of an invocation (Spec) *)

\* C30: the step that ends an invocation whose archive opened has reported
\* progress 100 and the message "Successfully processed N series", N the
\* length of `out`, also when it then fails because N = 0; an invocation whose
\* archive did not open has reported nothing above 10
C30_FullProgressBeforeOutcome ==
    [][ RunEnds =>
          IF file.opens
          THEN /\ Last(reported') = 100
               /\ loadingProgress' = 100
               /\ loadingMessage' =
                      <<"Successfully processed", Len(OutOf(seriesMap')), "series">>
               /\ error' = NoSeriesError <=> Len(OutOf(seriesMap')) = 0
          ELSE /\ \A k \in 1..Len(reported') : reported'[k] <= 10
               /\ loadingProgress' <= 10
               /\ error' = LoadError ]_vars

\* an invocation has failed for want of a series, at progress 100 and with the
\* message of success
C30_Witness ==
    /\ pc = "done"
    /\ file.opens
    /\ error = NoSeriesError
    /\ ~hasLoaded
    /\ loadingProgress = 100
    /\ loadingMessage = <<"Successfully processed", 0, "series">>

====
